---------------------------- MODULE Spec2Model ----------------------------
(***************************************************************************)
(* Model of scripts/nba_allowed_by_position.py: the helpers                *)
(* (current_season_str, parse_opponent_from_matchup, normalize_position,   *)
(* top_bottom_10) and the stages of main() (window selection, log          *)
(* reconciliation, aggregation, ranking, the file sink and the optional    *)
(* spreadsheet sink).                                                      *)
(*                                                                         *)
(* Text is a sequence of one-character strings, so that upper(), strip(),  *)
(* replace(), split() and slicing act on characters as in the source.      *)
(* A data frame is a sequence of records, in row order.                    *)
(***************************************************************************)
EXTENDS Integers, Sequences, FiniteSets, TLC

VARIABLES
    call,           \* helper specifications: which function/stage was applied
    arg,            \* its input
    ret,            \* its result
    pc,             \* main(): position in the run
    config,         \* main(): the environment's settings
    upstream,       \* main(): what the collaborators returned so far
    bio,            \* main(): PlayerBio frame with POS_GROUP
    team_games_map, \* main(): TEAM_ABBREVIATION -> set of GAME_ID
    allowed,        \* main(): the AllowedRate frame
    sheets,         \* main(): sheet name -> ranked table
    excel,          \* file sink: "absent" | "partial" | "written"
    gsheet_ops,     \* spreadsheet sink: operations attempted, in order
    existing_titles,\* spreadsheet sink: tab titles seen at open time
    todo            \* spreadsheet sink: tabs still to process in the current loop

callVars == <<call, arg, ret>>
mainVars == <<pc, config, upstream, bio, team_games_map, allowed, sheets, excel,
              gsheet_ops, existing_titles, todo>>
vars == <<call, arg, ret, pc, config, upstream, bio, team_games_map, allowed, sheets,
          excel, gsheet_ops, existing_titles, todo>>

\* Python's None where a text is expected: no text is this sequence.
None == <<"None">>

\* Two team abbreviations.
AAA == <<"A", "A", "A">>
BBB == <<"B", "B", "B">>

(***************************************************************************)
(* Bounds of the inputs explored.                                          *)
(***************************************************************************)
MaxPieces == 5       \* pieces of text a matchup is built from
MaxLabelLen == 3     \* characters of a raw position label
MaxTeams == 11       \* teams in a frame to rank
MaxSmallTeams == 3   \* teams in a frame to rank with every value assignment
MaxTeamRows == 4     \* rows of a team game log
MaxLastN == 2        \* LAST_N_GAMES_PER_TEAM
MaxPlayerRows == 2   \* rows of a player game log
MaxBioRows == 2      \* rows of the player bio frame
MaxMergedRows == 3   \* rows of a reconciled set

(***************************************************************************)
(* Generic sequence helpers.                                               *)
(***************************************************************************)
Range(s) == {s[i] : i \in 1..Len(s)}

SeqsUpTo(S, n) == UNION {[1..k -> S] : k \in 0..n}

RECURSIVE Concat(_)
Concat(ss) == IF ss = <<>> THEN <<>> ELSE Head(ss) \o Concat(Tail(ss))

RECURSIVE SumSeq(_)
SumSeq(s) == IF s = <<>> THEN 0 ELSE Head(s) + SumSeq(Tail(s))

Min(a, b) == IF a <= b THEN a ELSE b

(***************************************************************************)
(* Characters.                                                             *)
(***************************************************************************)
Whitespace == {" ", "\t"}

Upper(c) ==
    CASE c = "g" -> "G"
      [] c = "f" -> "F"
      [] c = "c" -> "C"
      [] c = "x" -> "X"
      [] c = "o" -> "O"
      [] c = "n" -> "N"
      [] c = "e" -> "E"
      [] OTHER   -> c

StrUpper(s) == [i \in 1..Len(s) |-> Upper(s[i])]

RECURSIVE LStrip(_)
LStrip(s) == IF s # <<>> /\ Head(s) \in Whitespace THEN LStrip(Tail(s)) ELSE s

RECURSIVE RStrip(_)
RStrip(s) ==
    IF s # <<>> /\ s[Len(s)] \in Whitespace
    THEN RStrip(SubSeq(s, 1, Len(s) - 1)) ELSE s

StrStrip(s) == RStrip(LStrip(s))

StrContains(s, c) == \E i \in 1..Len(s) : s[i] = c

\* str.replace(old, new): leftmost, non-overlapping occurrences, one pass.
RECURSIVE StrReplace(_, _, _)
StrReplace(s, old, new) ==
    IF Len(s) < Len(old) THEN s
    ELSE IF SubSeq(s, 1, Len(old)) = old
         THEN new \o StrReplace(SubSeq(s, Len(old) + 1, Len(s)), old, new)
         ELSE <<Head(s)>> \o StrReplace(Tail(s), old, new)

\* str.split() with no separator: runs of whitespace separate, no empty tokens.
RECURSIVE SplitFrom(_, _, _)
SplitFrom(s, cur, acc) ==
    IF s = <<>> THEN (IF cur = <<>> THEN acc ELSE Append(acc, cur))
    ELSE IF Head(s) \in Whitespace
         THEN SplitFrom(Tail(s), <<>>, IF cur = <<>> THEN acc ELSE Append(acc, cur))
         ELSE SplitFrom(Tail(s), Append(cur, Head(s)), acc)

StrSplit(s) == SplitFrom(s, <<>>, <<>>)

Digit == <<"0", "1", "2", "3", "4", "5", "6", "7", "8", "9">>

\* str(n) for n >= 0.
RECURSIVE Str(_)
Str(n) == IF n < 10 THEN <<Digit[n + 1]>> ELSE Str(n \div 10) \o <<Digit[(n % 10) + 1]>>

\* s[-k:]
LastChars(s, k) == IF Len(s) <= k THEN s ELSE SubSeq(s, Len(s) - k + 1, Len(s))

(***************************************************************************)
(* current_season_str                                                      *)
(***************************************************************************)
SeasonStartMutant(year, month) == IF month > 10 THEN year ELSE year - 1

SeasonStart(year, month) == IF month >= 10 THEN year ELSE year - 1

current_season_str(year, month) ==
    LET start == SeasonStart(year, month)
    IN  Str(start) \o <<"-">> \o LastChars(Str(start + 1), 2)

(***************************************************************************)
(* parse_opponent_from_matchup                                             *)
(***************************************************************************)
IndexError == <<"IndexError">>

LastPartMutant(parts) == IF parts = <<>> THEN IndexError ELSE parts[1]

\* parts[-1]; an empty list raises IndexError.
LastPart(parts) == IF parts = <<>> THEN IndexError ELSE parts[Len(parts)]

parse_opponent_from_matchup(matchup) ==
    LastPart(StrSplit(StrReplace(matchup, <<"v", "s", ".">>, <<"v", "s">>)))

(***************************************************************************)
(* normalize_position                                                      *)
(***************************************************************************)
PosGroupMutant(p) ==
    IF StrContains(p, "F") THEN "F"
    ELSE IF StrContains(p, "G") THEN "G"
    ELSE IF StrContains(p, "C") THEN "C"
    ELSE "UNK"

PosGroup(p) ==
    IF StrContains(p, "G") THEN "G"
    ELSE IF StrContains(p, "F") THEN "F"
    ELSE IF StrContains(p, "C") THEN "C"
    ELSE "UNK"

normalize_position(pos) ==
    LET p == StrStrip(StrUpper(IF pos = None \/ pos = <<>> THEN <<>> ELSE pos))
    IN  PosGroup(p)

(***************************************************************************)
(* Stat values.  A mean of integer totals is kept exactly, as a fraction   *)
(* in lowest terms, so that equal values are equal records.                *)
(***************************************************************************)
RECURSIVE GCD(_, _)
GCD(a, b) == IF b = 0 THEN a ELSE GCD(b, a % b)

Rat(total, count) ==
    LET g == GCD(total, count) IN [num |-> total \div g, den |-> count \div g]

RatLess(x, y) == x.num * y.den < y.num * x.den

(***************************************************************************)
(* top_bottom_10                                                           *)
(*                                                                         *)
(* A frame to rank is a sequence of rows [TEAM, val].  sort_values is      *)
(* called with its default kind ("quicksort"), which pandas does not       *)
(* promise to be stable: rows with equal values come out in an order the   *)
(* build decides.  The order is a parameter here, a ranking `tie` of the   *)
(* row positions: of two rows with equal values the one with the smaller   *)
(* tie[position] comes first.  The identity is the stable outcome.         *)
(***************************************************************************)
HeadCount == 10
TailCount == 10

\* Row j of df is placed before row i.
Before(df, ascending, tie, j, i) ==
    \/ (IF ascending THEN RatLess(df[j].val, df[i].val)
                      ELSE RatLess(df[i].val, df[j].val))
    \/ (df[j].val = df[i].val /\ tie[j] < tie[i])

SortValues(df, ascending, tie) ==
    LET n == Len(df)
        place == [i \in 1..n |->
                    1 + Cardinality({j \in 1..n : Before(df, ascending, tie, j, i)})]
    IN  [k \in 1..n |-> df[CHOOSE i \in 1..n : place[i] = k]]

\* df.head(k)
DfHead(df, k) == SubSeq(df, 1, Min(k, Len(df)))

DfTailMutant(df, k) == SubSeq(df, 1, Min(k, Len(df)))

\* df.tail(k)
DfTail(df, k) == SubSeq(df, Len(df) - Min(k, Len(df)) + 1, Len(df))

\* insert(0, "RANK", range(1, len + 1)); insert(1, "GROUP", group)
Labelled(df, group) ==
    [i \in 1..Len(df) |->
        [RANK |-> i, GROUP |-> group, TEAM |-> df[i].TEAM, val |-> df[i].val]]

BottomRowsMutant(sorted, tie) == DfTail(sorted, TailCount)

\* df.tail(10).sort_values(stat_col, ascending=True)
BottomRows(sorted, tie) == SortValues(DfTail(sorted, TailCount), TRUE, tie)

top_bottom_10(df, tieTop, tieBottom) ==
    LET sorted == SortValues(df, FALSE, tieTop)
        top    == Labelled(DfHead(sorted, HeadCount), "MOST ALLOWED")
        bottom == Labelled(BottomRows(sorted, tieBottom), "LEAST ALLOWED")
    IN  top \o bottom

\* Tie orders tried for n rows: input order, reverse input order, a rotation.
TieKinds == {"input", "reverse", "rotate"}

TieOrder(n, kind) ==
    CASE kind = "input"   -> [i \in 1..n |-> i]
      [] kind = "reverse" -> [i \in 1..n |-> n + 1 - i]
      [] kind = "rotate"  -> [i \in 1..n |-> (i % n) + 1]

TieOrders(n) == {TieOrder(n, kind) : kind \in TieKinds}

\* build_rank(pos, stat): the teams' rates of one position and one stat.
build_rank(allowedFrame, pos, stat, kindTop, kindBottom) ==
    LET rows == SelectSeq(allowedFrame, LAMBDA r : r.POS_GROUP = pos)
        df   == [i \in 1..Len(rows) |->
                    [TEAM |-> rows[i].DEF_TEAM_ABBR, val |-> rows[i][stat \o "_ALLOWED"]]]
    IN  top_bottom_10(df, TieOrder(Len(df), kindTop),
                      TieOrder(Min(TailCount, Len(df)), kindBottom))

(***************************************************************************)
(* main(), step 2: team game logs -> last N games per team.                *)
(*                                                                         *)
(* A team log row is [TEAM_ID, TEAM_ABBREVIATION, GAME_ID, GAME_DATE]; the *)
(* date arrives as a calendar date [y, m, d] and the abbreviation is text. *)
(***************************************************************************)
\* pd.to_datetime: a calendar date becomes a point in time (a day number).
to_datetime(date) == (date.y * 12 + (date.m - 1)) * 31 + date.d

ByTeamThenDateMutant(a, b) == a.TEAM_ID < b.TEAM_ID

\* The order of sort_values(["TEAM_ID", "GAME_DATE"]): row a sorts before row b.
ByTeamThenDate(a, b) ==
    \/ a.TEAM_ID < b.TEAM_ID
    \/ (a.TEAM_ID = b.TEAM_ID /\ a.GAME_DATE < b.GAME_DATE)

\* team_logs.sort_values(["TEAM_ID", "GAME_DATE"]): pandas sorts on several
\* columns with a stable lexsort, so equal rows keep their order.
SortTeamLogs(df) ==
    LET n == Len(df)
        before(j, i) == \/ ByTeamThenDate(df[j], df[i])
                        \/ (~ByTeamThenDate(df[i], df[j]) /\ j < i)
        place == [i \in 1..n |-> 1 + Cardinality({j \in 1..n : before(j, i)})]
    IN  [k \in 1..n |-> df[CHOOSE i \in 1..n : place[i] = k]]

\* The positions of df kept by df.groupby("TEAM_ID").tail(n), n >= 1.
TailPositions(df, n) ==
    {i \in 1..Len(df) :
        Cardinality({j \in (i + 1)..Len(df) : df[j].TEAM_ID = df[i].TEAM_ID}) < n}

\* The rows of df at the positions P, in frame order.
RECURSIVE RowsAt(_, _, _)
RowsAt(df, P, i) ==
    IF i > Len(df) THEN <<>>
    ELSE (IF i \in P THEN <<df[i]>> ELSE <<>>) \o RowsAt(df, P, i + 1)

\* df.groupby("TEAM_ID").tail(n): the kept rows, in frame order.
GroupByTail(df, n) == RowsAt(df, TailPositions(df, n), 1)

\* Lines 140-148: the mapping TEAM_ABBREVIATION -> set of str(GAME_ID).
TeamGamesMap(team_logs, last_n) ==
    LET dated  == [i \in 1..Len(team_logs) |->
                      [team_logs[i] EXCEPT !.GAME_DATE = to_datetime(@)]]
        sorted == SortTeamLogs(dated)
        team_last == GroupByTail(sorted, last_n)
    IN  [a \in {team_last[i].TEAM_ABBREVIATION : i \in 1..Len(team_last)} |->
            {Str(team_last[i].GAME_ID) :
                i \in {k \in 1..Len(team_last) : team_last[k].TEAM_ABBREVIATION = a}}]

(***************************************************************************)
(* main(), steps 1, 3 and 4: positions, player logs filtered to each       *)
(* defending team's window, positions joined.                              *)
(*                                                                         *)
(* A bio row is [PLAYER_ID, POSITION] (the position column found, a text   *)
(* or None); a player log row is [GAME_ID, MATCHUP, PLAYER_ID, PTS, AST,   *)
(* REB].                                                                   *)
(***************************************************************************)
\* astype(str) on the position column: None becomes the text "None".
AsTypeStr(label) == IF label = None THEN <<"N", "o", "n", "e">> ELSE label

\* Lines 128-130: bio with POS_GROUP.
BioFrame(raw) ==
    [i \in 1..Len(raw) |->
        [PLAYER_ID |-> raw[i].PLAYER_ID,
         POS_GROUP |-> normalize_position(AsTypeStr(raw[i].POSITION))]]

InLastNMutant(games_map, row) == row.DEF_TEAM_ABBR \in DOMAIN games_map

\* in_last_n: team_games_map.get(DEF_TEAM_ABBR) is not None and holds GAME_ID.
InLastN(games_map, row) ==
    /\ row.DEF_TEAM_ABBR \in DOMAIN games_map
    /\ row.GAME_ID \in games_map[row.DEF_TEAM_ABBR]

NaN == "NaN"

\* merge(..., on="PLAYER_ID", how="left"): a row per matching bio row, in bio
\* order; one row with a missing POS_GROUP when no bio row matches.
LeftJoin(row, bioFrame) ==
    LET hits == SelectSeq(bioFrame, LAMBDA b : b.PLAYER_ID = row.PLAYER_ID)
    IN  IF hits = <<>>
        THEN << [GAME_ID |-> row.GAME_ID, MATCHUP |-> row.MATCHUP,
                 PLAYER_ID |-> row.PLAYER_ID, PTS |-> row.PTS, AST |-> row.AST,
                 REB |-> row.REB, DEF_TEAM_ABBR |-> row.DEF_TEAM_ABBR,
                 POS_GROUP |-> NaN] >>
        ELSE [k \in 1..Len(hits) |->
                [GAME_ID |-> row.GAME_ID, MATCHUP |-> row.MATCHUP,
                 PLAYER_ID |-> row.PLAYER_ID, PTS |-> row.PTS, AST |-> row.AST,
                 REB |-> row.REB, DEF_TEAM_ABBR |-> row.DEF_TEAM_ABBR,
                 POS_GROUP |-> hits[k].POS_GROUP]]

\* Line 162 raises when a matchup has no token (parts[-1] of an empty list).
MatchupRaises(player_logs) ==
    \E i \in 1..Len(player_logs) :
        StrSplit(StrReplace(player_logs[i].MATCHUP, <<"v", "s", ".">>, <<"v", "s">>)) = <<>>

\* Lines 158-173, for logs whose matchups all have a token.
Reconcile(player_logs, games_map, bioFrame) ==
    LET logs == [i \in 1..Len(player_logs) |->
                    [GAME_ID |-> Str(player_logs[i].GAME_ID),
                     MATCHUP |-> player_logs[i].MATCHUP,
                     PLAYER_ID |-> player_logs[i].PLAYER_ID,
                     PTS |-> player_logs[i].PTS,
                     AST |-> player_logs[i].AST,
                     REB |-> player_logs[i].REB,
                     DEF_TEAM_ABBR |->
                        parse_opponent_from_matchup(player_logs[i].MATCHUP)]]
        inWindow == SelectSeq(logs, LAMBDA r : InLastN(games_map, r))
        merged   == Concat([i \in 1..Len(inWindow) |-> LeftJoin(inWindow[i], bioFrame)])
        known    == SelectSeq(merged, LAMBDA r : r.POS_GROUP # NaN)
    IN  SelectSeq(known, LAMBDA r : r.POS_GROUP \in {"G", "F", "C"})

(***************************************************************************)
(* main(), step 5: sum per (DEF_TEAM_ABBR, POS_GROUP, GAME_ID), then the   *)
(* mean across games per (DEF_TEAM_ABBR, POS_GROUP).  groupby sorts its    *)
(* keys, texts in character order.                                         *)
(***************************************************************************)
Ascii == <<"\t", " ", "-", ".", "0", "1", "2", "3", "4", "5", "6", "7", "8", "9",
           "@", "A", "B", "C", "E", "F", "G", "N", "O", "X", "Z",
           "c", "e", "f", "g", "n", "o", "s", "v", "x">>

CharCode(c) == CHOOSE i \in 1..Len(Ascii) : Ascii[i] = c

RECURSIVE TextLess(_, _)
TextLess(a, b) ==
    IF b = <<>> THEN FALSE
    ELSE IF a = <<>> THEN TRUE
    ELSE IF Head(a) = Head(b) THEN TextLess(Tail(a), Tail(b))
    ELSE CharCode(Head(a)) < CharCode(Head(b))

\* Tuples of texts, compared component by component.
RECURSIVE KeyLess(_, _)
KeyLess(k, l) ==
    IF k = <<>> THEN FALSE
    ELSE IF Head(k) = Head(l) THEN KeyLess(Tail(k), Tail(l))
    ELSE TextLess(Head(k), Head(l))

\* The group keys in ascending order.
SortedKeys(keys) ==
    LET place == [k \in keys |-> 1 + Cardinality({l \in keys : KeyLess(l, k)})]
    IN  [p \in 1..Cardinality(keys) |-> CHOOSE k \in keys : place[k] = p]

GameKey(r) == <<r.DEF_TEAM_ABBR, <<r.POS_GROUP>>, r.GAME_ID>>
PairKey(r) == <<r.DEF_TEAM_ABBR, <<r.POS_GROUP>>>>

\* df[col] as a sequence.
Column(df, col) == [i \in 1..Len(df) |-> df[i][col]]

GroupSumMutant(vals) == SumSeq(vals) \div Len(vals)

\* .sum() of one column of one group
GroupSum(vals) == SumSeq(vals)

\* .mean() of one column of one group
GroupMean(vals) == Rat(SumSeq(vals), Len(vals))

\* Lines 176-179.
PerGame(merged) ==
    LET keys == SortedKeys({GameKey(merged[i]) : i \in 1..Len(merged)})
    IN  [p \in 1..Len(keys) |->
            LET rows == SelectSeq(merged, LAMBDA r : GameKey(r) = keys[p])
            IN  [DEF_TEAM_ABBR |-> keys[p][1], POS_GROUP |-> keys[p][2][1],
                 GAME_ID |-> keys[p][3],
                 PTS |-> GroupSum(Column(rows, "PTS")),
                 AST |-> GroupSum(Column(rows, "AST")),
                 REB |-> GroupSum(Column(rows, "REB"))]]

\* Lines 181-185.
Allowed(per_game) ==
    LET keys == SortedKeys({PairKey(per_game[i]) : i \in 1..Len(per_game)})
    IN  [p \in 1..Len(keys) |->
            LET rows == SelectSeq(per_game, LAMBDA r : PairKey(r) = keys[p])
            IN  [DEF_TEAM_ABBR |-> keys[p][1], POS_GROUP |-> keys[p][2][1],
                 PTS_ALLOWED |-> GroupMean(Column(rows, "PTS")),
                 AST_ALLOWED |-> GroupMean(Column(rows, "AST")),
                 REB_ALLOWED |-> GroupMean(Column(rows, "REB"))]]

(***************************************************************************)
(* main(): the position column probe and the sheet catalog.                *)
(***************************************************************************)
PosColumns == <<"PLAYER_POSITION", "POSITION", "POS">>

\* Lines 120-126: the first recognized column present, None when there is none.
FindPosCol(columns) ==
    IF \E k \in 1..Len(PosColumns) : PosColumns[k] \in columns
    THEN PosColumns[CHOOSE k \in 1..Len(PosColumns) :
                        /\ PosColumns[k] \in columns
                        /\ \A j \in 1..(k - 1) : PosColumns[j] \notin columns]
    ELSE "None"

\* Lines 195-201, in insertion order.
SheetNames == <<"G_PTS", "G_AST", "G_REB", "F_PTS", "F_REB", "C_PTS", "C_REB">>

Sheets(allowedFrame, kindTop, kindBottom) ==
    [name \in Range(SheetNames) |->
        CASE name = "G_PTS" -> build_rank(allowedFrame, "G", "PTS", kindTop, kindBottom)
          [] name = "G_AST" -> build_rank(allowedFrame, "G", "AST", kindTop, kindBottom)
          [] name = "G_REB" -> build_rank(allowedFrame, "G", "REB", kindTop, kindBottom)
          [] name = "F_PTS" -> build_rank(allowedFrame, "F", "PTS", kindTop, kindBottom)
          [] name = "F_REB" -> build_rank(allowedFrame, "F", "REB", kindTop, kindBottom)
          [] name = "C_PTS" -> build_rank(allowedFrame, "C", "PTS", kindTop, kindBottom)
          [] name = "C_REB" -> build_rank(allowedFrame, "C", "REB", kindTop, kindBottom)]

(***************************************************************************)
(* State of main() while a helper specification runs.                      *)
(***************************************************************************)
MainIdle ==
    /\ pc = "idle"
    /\ config = <<>>
    /\ upstream = <<>>
    /\ bio = <<>>
    /\ team_games_map = <<>>
    /\ allowed = <<>>
    /\ sheets = <<>>
    /\ excel = "absent"
    /\ gsheet_ops = <<>>
    /\ existing_titles = {}
    /\ todo = <<>>

InitCall == call = "none" /\ arg = <<>> /\ ret = <<>> /\ MainIdle

(***************************************************************************)
(* main(): one run.  The collaborators' answers are inputs: each fetch     *)
(* either raises or returns one of a few frames, every call on the file    *)
(* and spreadsheet sinks either raises or succeeds.  An exception leaves   *)
(* main() and ends the run ("crashed").                                    *)
(***************************************************************************)
BioFetches ==
    { [columns |-> {"PLAYER_ID", "PLAYER_NAME", "PLAYER_POSITION"},
       rows |-> << ("PLAYER_ID" :> 1) @@ ("PLAYER_POSITION" :> <<"G">>),
                   ("PLAYER_ID" :> 2) @@ ("PLAYER_POSITION" :> <<"F", "-", "C">>) >>],
      [columns |-> {"PLAYER_ID", "PLAYER_NAME", "POSITION", "POS"},
       rows |-> << ("PLAYER_ID" :> 1) @@ ("POSITION" :> <<"g">>) @@ ("POS" :> <<"C">>),
                   ("PLAYER_ID" :> 3) @@ ("POSITION" :> None) @@ ("POS" :> <<"C">>) >>],
      [columns |-> {"PLAYER_ID", "PLAYER_NAME", "TEAM_ID"},
       rows |-> << ("PLAYER_ID" :> 1) >>] }

Dec30 == [y |-> 2024, m |-> 12, d |-> 30]
Dec31 == [y |-> 2024, m |-> 12, d |-> 31]

TeamLogFetches ==
    { << >>,
      << [TEAM_ID |-> 1, TEAM_ABBREVIATION |-> AAA, GAME_ID |-> 101, GAME_DATE |-> Dec30],
         [TEAM_ID |-> 2, TEAM_ABBREVIATION |-> BBB, GAME_ID |-> 101, GAME_DATE |-> Dec30],
         [TEAM_ID |-> 2, TEAM_ABBREVIATION |-> BBB, GAME_ID |-> 102, GAME_DATE |-> Dec31],
         [TEAM_ID |-> 1, TEAM_ABBREVIATION |-> AAA, GAME_ID |-> 102, GAME_DATE |-> Dec31] >> }

AtAAA == BBB \o <<" ", "@", " ">> \o AAA
VsBBB == AAA \o <<" ", "v", "s", ".", " ">> \o BBB

PlayerLogFetches ==
    { << >>,
      << [GAME_ID |-> 101, MATCHUP |-> AtAAA, PLAYER_ID |-> 1, PTS |-> 10, AST |-> 1, REB |-> 4],
         [GAME_ID |-> 101, MATCHUP |-> AtAAA, PLAYER_ID |-> 3, PTS |-> 20, AST |-> 3, REB |-> 0],
         [GAME_ID |-> 102, MATCHUP |-> AtAAA, PLAYER_ID |-> 1, PTS |-> 50, AST |-> 0, REB |-> 2],
         [GAME_ID |-> 102, MATCHUP |-> VsBBB, PLAYER_ID |-> 2, PTS |-> 20, AST |-> 3, REB |-> 0],
         [GAME_ID |-> 101, MATCHUP |-> VsBBB, PLAYER_ID |-> 1, PTS |-> 30, AST |-> 1, REB |-> 4] >>,
      << [GAME_ID |-> 101, MATCHUP |-> << >>, PLAYER_ID |-> 1, PTS |-> 10, AST |-> 1, REB |-> 4] >> }

TitleSets == { {}, {"Sheet1"}, {"README", "G_PTS", "G_AST"},
               {"README"} \cup Range(SheetNames) }

Init ==
    /\ call = "none" /\ arg = <<>> /\ ret = <<>>
    /\ pc = "start"
    /\ config = <<>>
    /\ upstream = [bio |-> "pending", columns |-> {}, team |-> "pending", player |-> "pending"]
    /\ bio = <<>>
    /\ team_games_map = <<>>
    /\ allowed = <<>>
    /\ sheets = <<>>
    /\ excel = "absent"
    /\ gsheet_ops = <<>>
    /\ existing_titles = {}
    /\ todo = <<>>

\* Lines 103-110 and 38-50: the run-time gate, then the settings.
Guard ==
    /\ pc = "start"
    /\ \E force \in BOOLEAN, weekday \in 0..6, hour \in {9, 10},
          last_n \in 1..MaxLastN, sa_json \in {"", "malformed", "valid"},
          sheet_id \in {"", "sheet"} :
          IF force \/ (weekday \in {0, 2, 4} /\ hour = 10)
          THEN /\ pc' = "bio"
               /\ config' = [last_n |-> last_n, sa_json |-> sa_json, sheet_id |-> sheet_id]
          ELSE /\ pc' = "exit0"
               /\ config' = config
    /\ UNCHANGED <<callVars, upstream, bio, team_games_map, allowed, sheets, excel,
                   gsheet_ops, existing_titles, todo>>

\* Lines 112-130.
FetchBio ==
    /\ pc = "bio"
    /\ \/ /\ upstream' = [upstream EXCEPT !.bio = "error"]
          /\ pc' = "crashed"
          /\ bio' = bio
       \/ \E frame \in BioFetches :
            LET pos_col == FindPosCol(frame.columns)
            IN  /\ upstream' = [upstream EXCEPT !.bio = "ok", !.columns = frame.columns]
                /\ IF pos_col = "None"
                   THEN pc' = "crashed" /\ bio' = bio
                   ELSE /\ pc' = "team"
                        /\ bio' = BioFrame([i \in 1..Len(frame.rows) |->
                                    [PLAYER_ID |-> frame.rows[i]["PLAYER_ID"],
                                     POSITION |-> frame.rows[i][pos_col]]])
    /\ UNCHANGED <<callVars, config, team_games_map, allowed, sheets, excel,
                   gsheet_ops, existing_titles, todo>>

FetchTeamLogsMutant ==
    /\ pc = "team"
    /\ \/ /\ upstream' = [upstream EXCEPT !.team = "error"]
          /\ pc' = "player"
          /\ team_games_map' = TeamGamesMap(<<>>, config.last_n)
       \/ \E team_logs \in TeamLogFetches :
            /\ upstream' = [upstream EXCEPT !.team = "ok"]
            /\ pc' = "player"
            /\ team_games_map' = TeamGamesMap(team_logs, config.last_n)
    /\ UNCHANGED <<callVars, config, bio, allowed, sheets, excel,
                   gsheet_ops, existing_titles, todo>>

\* Lines 132-148.
FetchTeamLogs ==
    /\ pc = "team"
    /\ \/ /\ upstream' = [upstream EXCEPT !.team = "error"]
          /\ pc' = "crashed"
          /\ team_games_map' = team_games_map
       \/ \E team_logs \in TeamLogFetches :
            /\ upstream' = [upstream EXCEPT !.team = "ok"]
            /\ pc' = "player"
            /\ team_games_map' = TeamGamesMap(team_logs, config.last_n)
    /\ UNCHANGED <<callVars, config, bio, allowed, sheets, excel,
                   gsheet_ops, existing_titles, todo>>

\* Lines 150-201: the player logs, reconciled, aggregated and ranked.
FetchPlayerLogs ==
    /\ pc = "player"
    /\ \/ /\ upstream' = [upstream EXCEPT !.player = "error"]
          /\ pc' = "crashed"
          /\ UNCHANGED <<allowed, sheets>>
       \/ \E player_logs \in PlayerLogFetches, kindTop \in TieKinds, kindBottom \in TieKinds :
            LET merged == Reconcile(player_logs, team_games_map, bio)
            IN  /\ upstream' = [upstream EXCEPT !.player = "ok"]
                /\ IF MatchupRaises(player_logs)
                   THEN pc' = "crashed" /\ UNCHANGED <<allowed, sheets>>
                   ELSE /\ pc' = "excel"
                        /\ allowed' = Allowed(PerGame(merged))
                        /\ sheets' = Sheets(Allowed(PerGame(merged)), kindTop, kindBottom)
    /\ UNCHANGED <<callVars, config, bio, team_games_map, excel,
                   gsheet_ops, existing_titles, todo>>

WriteExcelMutant ==
    /\ pc = "excel"
    /\ \/ excel' = "written" /\ pc' = "gsheet"
       \/ excel' \in {"absent", "partial"} /\ pc' = "gsheet"
    /\ UNCHANGED <<callVars, config, upstream, bio, team_games_map, allowed, sheets,
                   gsheet_ops, existing_titles, todo>>

\* Lines 203-221: the workbook is written, or the writer raises (before the
\* file exists, or leaving the sheets written so far).
WriteExcel ==
    /\ pc = "excel"
    /\ \/ excel' = "written" /\ pc' = "gsheet"
       \/ excel' \in {"absent", "partial"} /\ pc' = "crashed"
    /\ UNCHANGED <<callVars, config, upstream, bio, team_games_map, allowed, sheets,
                   gsheet_ops, existing_titles, todo>>

\* The calls made on the spreadsheet sink up to the k-th of ops, which
\* raises (k = 0: none raises and all of ops are made).
Attempted(ops, k) == IF k = 0 THEN ops ELSE SubSeq(ops, 1, k)

\* Lines 223-226 and 88-99, 250-251: get_gsheet_client, then the branch.
GetClient ==
    /\ pc = "gsheet"
    /\ IF config.sa_json = ""
       THEN pc' = "done" /\ gsheet_ops' = gsheet_ops
       ELSE /\ gsheet_ops' = Append(gsheet_ops, <<"authorize", "">>)
            /\ IF config.sa_json = "malformed"
               THEN pc' = "crashed"
               ELSE \/ pc' = "crashed"
                    \/ pc' = (IF config.sheet_id = "" THEN "done" ELSE "open")
    /\ UNCHANGED <<callVars, config, upstream, bio, team_games_map, allowed, sheets,
                   excel, existing_titles, todo>>

\* Lines 227-230.
OpenSheet ==
    /\ pc = "open"
    /\ \E k \in 0..2 :
          /\ gsheet_ops' = gsheet_ops \o
                Attempted(<< <<"open_by_key", config.sheet_id>>, <<"worksheets", "">> >>, k)
          /\ IF k = 0
             THEN /\ pc' = "ensure"
                  /\ existing_titles' \in TitleSets
                  /\ todo' = <<"README">> \o SheetNames
             ELSE pc' = "crashed" /\ UNCHANGED <<existing_titles, todo>>
    /\ UNCHANGED <<callVars, config, upstream, bio, team_games_map, allowed, sheets, excel>>

\* Lines 232-234, one tab of desired_tabs.
EnsureTab ==
    /\ pc = "ensure"
    /\ IF Head(todo) \in existing_titles
       THEN /\ gsheet_ops' = gsheet_ops
            /\ todo' = Tail(todo)
            /\ pc' = (IF Tail(todo) = <<>> THEN "readme" ELSE "ensure")
       ELSE /\ gsheet_ops' = Append(gsheet_ops, <<"add_worksheet", Head(todo)>>)
            /\ \/ pc' = "crashed" /\ todo' = todo
               \/ /\ todo' = Tail(todo)
                  /\ pc' = (IF Tail(todo) = <<>> THEN "readme" ELSE "ensure")
    /\ UNCHANGED <<callVars, config, upstream, bio, team_games_map, allowed, sheets,
                   excel, existing_titles>>

\* write_sheet_tab(ws, df), lines 82-85.
write_sheet_tab(tab) == << <<"clear", tab>>, <<"update", tab>> >>

\* Lines 236-243.
WriteReadme ==
    /\ pc = "readme"
    /\ \E k \in 0..3 :
          /\ gsheet_ops' = gsheet_ops \o
                Attempted(<< <<"worksheet", "README">> >> \o write_sheet_tab("README"), k)
          /\ IF k = 0
             THEN pc' = "tabs" /\ todo' = SheetNames
             ELSE pc' = "crashed" /\ todo' = todo
    /\ UNCHANGED <<callVars, config, upstream, bio, team_games_map, allowed, sheets,
                   excel, existing_titles>>

\* Lines 245-249, one sheet.
WriteTab ==
    /\ pc = "tabs"
    /\ \E k \in 0..3 :
          /\ gsheet_ops' = gsheet_ops \o
                Attempted(<< <<"worksheet", Head(todo)>> >> \o write_sheet_tab(Head(todo)), k)
          /\ IF k = 0
             THEN /\ todo' = Tail(todo)
                  /\ pc' = (IF Tail(todo) = <<>> THEN "done" ELSE "tabs")
             ELSE pc' = "crashed" /\ todo' = todo
    /\ UNCHANGED <<callVars, config, upstream, bio, team_games_map, allowed, sheets,
                   excel, existing_titles>>

Next ==
    \/ Guard
    \/ FetchBio
    \/ FetchTeamLogs
    \/ FetchPlayerLogs
    \/ WriteExcel
    \/ GetClient
    \/ OpenSheet
    \/ EnsureTab
    \/ WriteReadme
    \/ WriteTab

Spec == Init /\ [][Next]_vars

RecognizedColumns == {"PLAYER_POSITION", "POSITION", "POS"}

\* A fetch raised, or the bio frame came without a recognized position column.
UpstreamFailed ==
    \/ upstream.bio = "error"
    \/ (upstream.bio = "ok" /\ upstream.columns \cap RecognizedColumns = {})
    \/ upstream.team = "error"
    \/ upstream.player = "error"

\* C6: if one of the three fetches fails, or the bio table has none of the
\* recognized position columns, the run aborts and neither the file sink nor
\* the spreadsheet sink has been invoked: no report is produced or written.
C6_NoPartialReport ==
    UpstreamFailed =>
        /\ pc = "crashed"
        /\ sheets = <<>>
        /\ excel = "absent"
        /\ gsheet_ops = <<>>

\* The player log fetch fails after the bio and team stages succeeded.
C6_Witness ==
    /\ pc = "crashed"
    /\ upstream.player = "error"
    /\ bio # <<>>
    /\ DOMAIN team_games_map = {AAA, BBB}
    /\ excel = "absent"

\* C5: no spreadsheet-sink operation is attempted before the file write has
\* completed successfully, and the written file stays in place whatever the
\* spreadsheet sink does afterwards.
C5_FileBeforeSheet ==
    /\ [](gsheet_ops # <<>> => excel = "written")
    /\ [][excel = "written" => excel' = "written"]_vars

\* A spreadsheet update raised and the file is there.
C5_Witness ==
    /\ pc = "crashed"
    /\ excel = "written"
    /\ Len(gsheet_ops) > 3
    /\ gsheet_ops[Len(gsheet_ops)][1] = "update"

(***************************************************************************)
(* Specification of current_season_str over dates (year, month).           *)
(***************************************************************************)
Years == (1 .. 12) \cup (98 .. 101) \cup (1998 .. 2001) \cup (2023 .. 2026) \cup {9999}
Months == 1 .. 12

CallSeason ==
    /\ call = "none"
    /\ \E y \in Years, m \in Months :
           /\ call' = "current_season_str"
           /\ arg' = [year |-> y, month |-> m]
           /\ ret' = current_season_str(y, m)
           /\ UNCHANGED mainVars

SpecSeason == InitCall /\ [][CallSeason]_vars

DigitVal(c) == CHOOSE d \in 0..9 : Digit[d + 1] = c

RECURSIVE Val(_)
Val(s) == IF s = <<>> THEN 0 ELSE 10 * Val(SubSeq(s, 1, Len(s) - 1)) + DigitVal(s[Len(s)])

IsNumeral(s) ==
    /\ s # <<>>
    /\ \A i \in 1..Len(s) : s[i] \in Range(Digit)
    /\ (Len(s) = 1 \/ s[1] # "0")

\* C10: for every date, current_season_str returns "S-TT" where S is the year
\* when the month is October or later and the year before otherwise, written
\* in decimal, and TT is the last two decimal digits of S+1 (all of them when
\* S+1 has fewer than two); September 2024 gives "2023-24", November 2024
\* gives "2024-25" and a start year of 1999 gives "1999-00".
C10_SeasonString ==
    call = "current_season_str" =>
        LET S == IF arg.month >= 10 THEN arg.year ELSE arg.year - 1
            dashes == {i \in 1..Len(ret) : ret[i] = "-"}
        IN  /\ Cardinality(dashes) = 1
            /\ LET d  == CHOOSE i \in dashes : TRUE
                    SS == SubSeq(ret, 1, d - 1)
                    TT == SubSeq(ret, d + 1, Len(ret))
                IN  /\ IsNumeral(SS) /\ Val(SS) = S
                    /\ \A i \in 1..Len(TT) : TT[i] \in Range(Digit)
                    /\ Len(TT) = (IF S + 1 >= 10 THEN 2 ELSE 1)
                    /\ Val(TT) = (S + 1) % 100
            /\ (arg = [year |-> 2024, month |-> 9]
                    => ret = <<"2", "0", "2", "3", "-", "2", "4">>)
            /\ (arg = [year |-> 2024, month |-> 11]
                    => ret = <<"2", "0", "2", "4", "-", "2", "5">>)
            /\ (S = 1999 => ret = <<"1", "9", "9", "9", "-", "0", "0">>)

C10_Witness ==
    /\ call = "current_season_str"
    /\ arg = [year |-> 1999, month |-> 10]
    /\ ret = <<"1", "9", "9", "9", "-", "0", "0">>

(***************************************************************************)
(* Specification of parse_opponent_from_matchup over texts built from      *)
(* pieces of matchup strings.                                              *)
(***************************************************************************)

Abbrs == {AAA, BBB}
Pieces == Abbrs \cup {<<"v", "s", ".">>, <<".">>, <<"@">>, <<" ">>, <<"\t">>}

MatchupTexts == {Concat(ps) : ps \in SeqsUpTo(Pieces, MaxPieces)}

CallOpponent ==
    /\ call = "none"
    /\ \E m \in MatchupTexts :
           /\ call' = "parse_opponent_from_matchup"
           /\ arg' = m
           /\ ret' = parse_opponent_from_matchup(m)
           /\ UNCHANGED mainVars

SpecOpponent == InitCall /\ [][CallOpponent]_vars

\* Positions where a whitespace-delimited token starts.
TokenStarts(s) ==
    {i \in 1..Len(s) : s[i] \notin Whitespace /\ (i = 1 \/ s[i - 1] \in Whitespace)}

SetMax(S) == CHOOSE m \in S : \A x \in S : x <= m

LastTokenOf(s) ==
    SubSeq(s, SetMax(TokenStarts(s)), SetMax({i \in 1..Len(s) : s[i] \notin Whitespace}))

VsDot == <<"v", "s", ".">>
Vs == <<"v", "s">>

\* C9: for every matchup text with at least two whitespace-delimited tokens,
\* parse_opponent_from_matchup returns the last whitespace-delimited token
\* after replacing "vs." by "vs"; "AAA vs. BBB" and "AAA @ BBB" both give "BBB".
C9_LastToken ==
    (call = "parse_opponent_from_matchup" /\ Cardinality(TokenStarts(arg)) >= 2) =>
        /\ ret = LastTokenOf(StrReplace(arg, VsDot, Vs))
        /\ ret = StrReplace(LastTokenOf(arg), VsDot, Vs)
        /\ \A a, b \in Abbrs :
              (arg = a \o <<" ">> \o VsDot \o <<" ">> \o b
                  \/ arg = a \o <<" ", "@", " ">> \o b) => ret = b

C9_Witness ==
    /\ call = "parse_opponent_from_matchup"
    /\ arg = <<"A", "A", "A", " ", "v", "s", ".", " ", "B", "B", "B">>
    /\ ret = <<"B", "B", "B">>

(***************************************************************************)
(* Specification of normalize_position over raw labels, None included.     *)
(***************************************************************************)

LabelChars == {"G", "g", "F", "f", "C", "c", "x", "-", " "}
Labels == SeqsUpTo(LabelChars, MaxLabelLen) \cup {None}

CallNormalize ==
    /\ call = "none"
    /\ \E l \in Labels :
           /\ call' = "normalize_position"
           /\ arg' = l
           /\ ret' = normalize_position(l)
           /\ UNCHANGED mainVars

SpecNormalize == InitCall /\ [][CallNormalize]_vars

\* The raw label holds the letter in either case.
HasLetter(l, upper, lower) ==
    l # None /\ \E i \in 1..Len(l) : l[i] \in {upper, lower}

ExpectedGroup(l, unknown) ==
    IF HasLetter(l, "G", "g") THEN "G"
    ELSE IF HasLetter(l, "F", "f") THEN "F"
    ELSE IF HasLetter(l, "C", "c") THEN "C"
    ELSE unknown

SmallValues == 1 .. 3
Mults == {1, 3, 7}
Shifts == {0, 1, 5}
Mods == {1, 2, 3, 11, 13}

ValueColumns(n) ==
    {[i \in 1..n |-> ((a * i + b) % m) + 1] : a \in Mults, b \in Shifts, m \in Mods}
        \cup (IF n <= MaxSmallTeams THEN [1..n -> SmallValues] ELSE {})

RankFrame(n, col) == [i \in 1..n |-> [TEAM |-> i, val |-> Rat(col[i], 1)]]

CallRanker ==
    /\ call = "none"
    /\ \E n \in 0..MaxTeams :
           \E col \in ValueColumns(n), tieTop \in TieOrders(n),
              tieBottom \in TieOrders(Min(TailCount, n)) :
               /\ call' = "top_bottom_10"
               /\ arg' = RankFrame(n, col)
               /\ ret' = top_bottom_10(RankFrame(n, col), tieTop, tieBottom)
               /\ UNCHANGED mainVars

SpecRanker == InitCall /\ [][CallRanker]_vars

Teams(rows) == [i \in 1..Len(rows) |-> rows[i].TEAM]
Vals(rows) == [i \in 1..Len(rows) |-> rows[i].val]
Reversed(s) == [i \in 1..Len(s) |-> s[Len(s) + 1 - i]]
Injective(s) == \A i, j \in 1..Len(s) : s[i] = s[j] => i = j
GroupRows(table, group) == SelectSeq(table, LAMBDA r : r.GROUP = group)

\* The rows are k distinct rows of df, no row left out of them ranks
\* strictly better, and they run from best to worst (the values of the
\* frames ranked here are whole numbers).
BestOf(rows, df, k, Better(_, _)) ==
    /\ Len(rows) = k
    /\ Injective(Teams(rows))
    /\ \A i \in 1..k : [TEAM |-> rows[i].TEAM, val |-> rows[i].val] \in Range(df)
    /\ \A i \in 1..k : rows[i].RANK = i
    /\ \A i \in 1..(k - 1) : ~Better(rows[i + 1].val.num, rows[i].val.num)
    /\ \A r \in Range(df) :
            r.TEAM \notin Range(Teams(rows)) =>
                \A i \in 1..k : ~Better(r.val.num, rows[i].val.num)

\* C4: for an input of n teams the output has min(20, 2n) rows: first the
\* min(10, n) teams with the highest values in non-increasing order, all
\* labelled MOST ALLOWED, then the min(10, n) teams with the lowest values in
\* non-decreasing order, all labelled LEAST ALLOWED; RANK counts 1, 2, ... in
\* each group; zero teams give an empty table.
C4_RankedTable ==
    call = "top_bottom_10" =>
        LET n == Len(arg)
            k == Min(10, n)
        IN  /\ Len(ret) = Min(20, 2 * n)
            /\ \A i \in 1..k : ret[i].GROUP = "MOST ALLOWED"
            /\ \A i \in (k + 1)..(2 * k) : ret[i].GROUP = "LEAST ALLOWED"
            /\ BestOf(SubSeq(ret, 1, k), arg, k, LAMBDA x, y : x > y)
            /\ BestOf(SubSeq(ret, k + 1, 2 * k), arg, k, LAMBDA x, y : x < y)
            /\ (n = 0 => ret = <<>>)

\* Eleven teams: the team with the lowest value is cut from the first group
\* and the team with the highest value from the second.
C4_Witness ==
    /\ call = "top_bottom_10"
    /\ Len(arg) = 11
    /\ Injective(Vals(arg))
    /\ Len(ret) = 20
    /\ Range(Teams(SubSeq(ret, 1, 10))) # Range(Teams(SubSeq(ret, 11, 20)))

\* C7 (as claimed): with exactly 10 teams, whatever their values, both groups
\* hold all 10 teams and the LEAST ALLOWED team sequence is the reverse of
\* the MOST ALLOWED one.
C7_ReversedTeams ==
    (call = "top_bottom_10" /\ Len(arg) = 10) =>
        LET most  == GroupRows(ret, "MOST ALLOWED")
            least == GroupRows(ret, "LEAST ALLOWED")
        IN  /\ Range(Teams(most)) = Range(Teams(arg)) /\ Len(most) = 10
            /\ Range(Teams(least)) = Range(Teams(arg)) /\ Len(least) = 10
            /\ Teams(least) = Reversed(Teams(most))

\* C7 (as amended): with exactly 10 teams both groups hold all 10 teams and the
\* LEAST ALLOWED value sequence is the reverse of the MOST ALLOWED one; the
\* team sequence is the reverse too when the 10 values are pairwise distinct.
C7_ReversedValues ==
    (call = "top_bottom_10" /\ Len(arg) = 10) =>
        LET most  == GroupRows(ret, "MOST ALLOWED")
            least == GroupRows(ret, "LEAST ALLOWED")
        IN  /\ Range(Teams(most)) = Range(Teams(arg)) /\ Len(most) = 10
            /\ Range(Teams(least)) = Range(Teams(arg)) /\ Len(least) = 10
            /\ Vals(least) = Reversed(Vals(most))
            /\ (Injective(Vals(arg)) => Teams(least) = Reversed(Teams(most)))

C7_Witness ==
    /\ call = "top_bottom_10"
    /\ Len(arg) = 10
    /\ Injective(Vals(arg))
    /\ Teams(arg) # Teams(GroupRows(ret, "MOST ALLOWED"))
    /\ Teams(GroupRows(ret, "LEAST ALLOWED"))
            = Reversed(Teams(GroupRows(ret, "MOST ALLOWED")))

(***************************************************************************)
(* Specification of the window selection over team logs of at most         *)
(* MaxTeamRows rows and window sizes 1..MaxLastN.  Row k of the log is     *)
(* game 100+k (one row per team per game); team 2 appears under two        *)
(* abbreviations and abbreviation AAA under two team ids.                  *)
(***************************************************************************)

TeamKeys == {<<1, AAA>>, <<2, BBB>>, <<2, AAA>>}
GameDates == {[y |-> 2024, m |-> 12, d |-> 30], [y |-> 2024, m |-> 12, d |-> 31],
              [y |-> 2025, m |-> 1, d |-> 2]}

StageWindow ==
    /\ call = "none"
    /\ \E n \in 0..MaxTeamRows, last_n \in 1..MaxLastN :
           \E ks \in [1..n -> TeamKeys], ds \in [1..n -> GameDates] :
               LET team_logs == [i \in 1..n |->
                       [TEAM_ID |-> ks[i][1], TEAM_ABBREVIATION |-> ks[i][2],
                        GAME_ID |-> 100 + i, GAME_DATE |-> ds[i]]]
               IN  /\ call' = "team_games_map"
                   /\ arg' = [team_logs |-> team_logs, last_n |-> last_n]
                   /\ ret' = TeamGamesMap(team_logs, last_n)
                   /\ UNCHANGED mainVars

SpecWindow == InitCall /\ [][StageWindow]_vars

\* Calendar order of two dates.
Earlier(d, e) ==
    \/ d.y < e.y
    \/ (d.y = e.y /\ d.m < e.m)
    \/ (d.y = e.y /\ d.m = e.m /\ d.d < e.d)

\* The positions of the min(n, count) chronologically latest rows among the
\* positions P of the log (of equal dates the later fetched is the later).
LatestOf(log, P, n) ==
    {i \in P :
        Cardinality({j \in P : \/ Earlier(log[i].GAME_DATE, log[j].GAME_DATE)
                               \/ (log[i].GAME_DATE = log[j].GAME_DATE /\ j > i)}) < n}

GameIdsAt(log, P) == {Str(log[i].GAME_ID) : i \in P}
RowsOfAbbr(log, a) == {i \in 1..Len(log) : log[i].TEAM_ABBREVIATION = a}
AbbrsOf(log) == {log[i].TEAM_ABBREVIATION : i \in 1..Len(log)}

\* Every team id goes with one abbreviation and every abbreviation with one
\* id (a team of the data model has an id and an abbreviation).
OneToOne(log) ==
    \A i, j \in 1..Len(log) :
        (log[i].TEAM_ID = log[j].TEAM_ID) <=>
            (log[i].TEAM_ABBREVIATION = log[j].TEAM_ABBREVIATION)

PlayerIds == {1, 2}
LogGameIds == {101, 102}
BioLabels == {<<"F", "-", "C">>, <<"x">>, None}
Matchups == {BBB \o <<" ", "@", " ">> \o AAA, AAA \o <<" ", "v", "s", ".", " ">> \o BBB}
Windows == { (AAA :> {Str(101)}),
             (AAA :> {Str(101)}) @@ (BBB :> {Str(101), Str(102)}) }

StageReconcile ==
    /\ call = "none"
    /\ \E n \in 0..MaxPlayerRows, m \in 0..MaxBioRows, games_map \in Windows :
           \E gs \in [1..n -> LogGameIds], ms \in [1..n -> Matchups],
              ps \in [1..n -> PlayerIds],
              raw \in [1..m -> [PLAYER_ID : PlayerIds, POSITION : BioLabels]] :
               LET player_logs == [i \in 1..n |->
                       [GAME_ID |-> gs[i], MATCHUP |-> ms[i], PLAYER_ID |-> ps[i],
                        PTS |-> 10 * i, AST |-> i, REB |-> i + 1]]
               IN  /\ call' = "merged"
                   /\ arg' = [player_logs |-> player_logs, team_games_map |-> games_map,
                              bio |-> raw]
                   /\ ret' = Reconcile(player_logs, games_map, BioFrame(raw))
                   /\ UNCHANGED mainVars

SpecReconcile == InitCall /\ [][StageReconcile]_vars

\* The columns of a player log row, the game id as text.
LogColumns(r, game_id) ==
    [GAME_ID |-> game_id, MATCHUP |-> r.MATCHUP, PLAYER_ID |-> r.PLAYER_ID,
     PTS |-> r.PTS, AST |-> r.AST, REB |-> r.REB]

\* The three conditions on a player log row.
Survives(r, games_map, raw) ==
    LET defending == LastTokenOf(r.MATCHUP)
    IN  /\ defending \in DOMAIN games_map
        /\ Str(r.GAME_ID) \in games_map[defending]
        /\ \E i \in 1..Len(raw) :
              /\ raw[i].PLAYER_ID = r.PLAYER_ID
              /\ ExpectedGroup(raw[i].POSITION, "UNK") \in {"G", "F", "C"}

\* C3: a player log row is in the reconciled set if and only if its
\* defending team (the last token of its matchup) has a window holding the
\* row's game id, its player has a bio row, and that bio's normalized
\* position is G, F or C; with one bio row per player every surviving row
\* appears exactly once, in log order, and no other row appears.
C3_Reconciled ==
    call = "merged" =>
        LET logs == arg.player_logs
            kept == SelectSeq(logs, LAMBDA r : Survives(r, arg.team_games_map, arg.bio))
            out  == [i \in 1..Len(ret) |-> LogColumns(ret[i], ret[i].GAME_ID)]
        IN  /\ Range(out) = {LogColumns(r, Str(r.GAME_ID)) : r \in Range(kept)}
            /\ \A i \in 1..Len(ret) :
                  /\ ret[i].DEF_TEAM_ABBR = LastTokenOf(ret[i].MATCHUP)
                  /\ ret[i].POS_GROUP \in {"G", "F", "C"}
            /\ (Injective([i \in 1..Len(arg.bio) |-> arg.bio[i].PLAYER_ID]) =>
                    out = [i \in 1..Len(kept) |-> LogColumns(kept[i], Str(kept[i].GAME_ID))])

\* Two rows, both inside the window of their defending team, one of a
\* player with a classifiable position, one of a player without bio row.
C3_Witness ==
    /\ call = "merged"
    /\ Len(arg.player_logs) = 2
    /\ Len(arg.bio) = 1
    /\ \A i \in 1..2 :
          /\ LastTokenOf(arg.player_logs[i].MATCHUP) \in DOMAIN arg.team_games_map
          /\ Str(arg.player_logs[i].GAME_ID)
                \in arg.team_games_map[LastTokenOf(arg.player_logs[i].MATCHUP)]
    /\ Len(ret) = 1
    /\ ret[1].PTS = 20
    /\ ret[1].POS_GROUP = "F"

(***************************************************************************)
(* Specification of the aggregation over reconciled sets of at most        *)
(* MaxMergedRows rows.                                                     *)
(***************************************************************************)

Pairs == {<<AAA, "G">>, <<AAA, "F">>, <<BBB, "G">>}
StatLines == {[PTS |-> 10, AST |-> 1, REB |-> 4], [PTS |-> 20, AST |-> 3, REB |-> 0],
              [PTS |-> 50, AST |-> 0, REB |-> 2]}

StageAggregate ==
    /\ call = "none"
    /\ \E n \in 0..MaxMergedRows :
           \E ks \in [1..n -> Pairs], gs \in [1..n -> LogGameIds], st \in [1..n -> StatLines] :
               LET merged == [i \in 1..n |->
                       [DEF_TEAM_ABBR |-> ks[i][1], POS_GROUP |-> ks[i][2],
                        GAME_ID |-> Str(gs[i]), PTS |-> st[i].PTS, AST |-> st[i].AST,
                        REB |-> st[i].REB]]
               IN  /\ call' = "allowed"
                   /\ arg' = merged
                   /\ ret' = Allowed(PerGame(merged))
                   /\ UNCHANGED mainVars

SpecAggregate == InitCall /\ [][StageAggregate]_vars

PairRows(merged, team, pos) ==
    SelectSeq(merged, LAMBDA r : r.DEF_TEAM_ABBR = team /\ r.POS_GROUP = pos)

\* rate is the mean over the distinct games of rows of the per-game totals:
\* the total over all rows divided by the number of distinct games.
IsMeanOfGameTotals(rate, rows, col) ==
    rate.num * Cardinality({rows[i].GAME_ID : i \in 1..Len(rows)})
        = rate.den * SumSeq([i \in 1..Len(rows) |-> rows[i][col]])

\* C1: for every (defending team, position) with a reconciled row and each
\* of points, assists and rebounds, the allowed rate is the mean, over the
\* distinct games of the pair, of the per-game sum of the stat over the
\* pair's rows; pairs without a row have no rate.  Points 10 and 20 in the
\* only game give 30; per-game totals 30 and 50 give 40.
C1_AllowedRate ==
    call = "allowed" =>
        LET pairs == {<<arg[i].DEF_TEAM_ABBR, arg[i].POS_GROUP>> : i \in 1..Len(arg)}
        IN  /\ Len(ret) = Cardinality(pairs)
            /\ \A p \in pairs :
                  \E i \in 1..Len(ret) :
                      LET rows == PairRows(arg, p[1], p[2])
                      IN  /\ ret[i].DEF_TEAM_ABBR = p[1] /\ ret[i].POS_GROUP = p[2]
                          /\ IsMeanOfGameTotals(ret[i].PTS_ALLOWED, rows, "PTS")
                          /\ IsMeanOfGameTotals(ret[i].AST_ALLOWED, rows, "AST")
                          /\ IsMeanOfGameTotals(ret[i].REB_ALLOWED, rows, "REB")
            /\ ((Len(arg) = 2 /\ Cardinality(pairs) = 1 /\ arg[1].GAME_ID = arg[2].GAME_ID
                    /\ {arg[1].PTS, arg[2].PTS} = {10, 20})
                  => ret[1].PTS_ALLOWED = [num |-> 30, den |-> 1])
            /\ ((Len(arg) = 3 /\ Cardinality(pairs) = 1 /\ arg[1].GAME_ID = arg[2].GAME_ID
                    /\ arg[3].GAME_ID # arg[1].GAME_ID
                    /\ <<arg[1].PTS, arg[2].PTS, arg[3].PTS>> = <<10, 20, 50>>)
                  => ret[1].PTS_ALLOWED = [num |-> 40, den |-> 1])

\* One pair in two games, two players in the first (30 points) and one in
\* the second (50 points): 40 points allowed.
C1_Witness ==
    /\ call = "allowed"
    /\ Len(arg) = 3
    /\ arg[1].GAME_ID = arg[2].GAME_ID
    /\ arg[3].GAME_ID # arg[1].GAME_ID
    /\ <<arg[1].PTS, arg[2].PTS, arg[3].PTS>> = <<10, 20, 50>>
    /\ Len(ret) = 1
    /\ ret[1].PTS_ALLOWED = [num |-> 40, den |-> 1]

=============================================================================
